---- MODULE Spec2Model ----
(***************************************************************************)
(* Model of the FlowLedger recurring-job scheduler:                        *)
(*   api/app/tasks/scheduler_service.py  (materialize, scan, dispatch)     *)
(*   api/app/routers/scheduler.py        (create_job, create_confirmation) *)
(*   api/app/models.py                   (tables and their constraints)    *)
(*                                                                         *)
(* The store is a PostgreSQL database used through SQLAlchemy sessions     *)
(* with autoflush=False: every statement of a session reads the latest     *)
(* committed rows, and every write of a session reaches the store when     *)
(* the session commits (flush + commit), or never if it fails before.      *)
(* Time is counted in ticks; TicksPerMinute ticks make one minute.         *)
(***************************************************************************)
EXTENDS Integers, Sequences, FiniteSets, TLC

VARIABLES jobs, job_runs, reminders, confirmations, clock, sched, req,
          sink_ok, job_resp

vars == <<jobs, job_runs, reminders, confirmations, clock, sched, req,
          sink_ok, job_resp>>

store == <<jobs, job_runs, reminders, confirmations>>

----------------------------------------------------------------------------
(* Bounds of the model *)

MaxTime == 2
MaxJobs == 2
MaxDispatchJobs == 1
MaxConfirmations == 2

(* Program constants, scaled *)

TicksPerMinute == 2
SCHEDULER_BATCH_SIZE == 2
MaxCreatedPerCall == 2

NULL == -1

Procs == {1, 2}
Clients == {1, 2}

----------------------------------------------------------------------------
(* Small helpers *)

Range(s) == {s[i] : i \in DOMAIN s}

Min(a, b) == IF a <= b THEN a ELSE b

Ids(table) == 1..Len(table)


----------------------------------------------------------------------------
(* Tables (api/app/models.py).  A table is the sequence of its committed   *)
(* rows; the autoincrement id of a row is its position.                    *)

\* user.users: the recipients. Users 1 and 3 are linked to the bot, user 2
\* is not.
users ==
    [u \in {1, 2, 3} |->
        [telegram_user_id |-> IF u = 2 THEN NULL ELSE 1000 + u,
         is_bot_enabled |-> TRUE]]

\* A row of scheduler.jobs
SchedulerJob(user_id, rule, first_run_at, advance_minutes, channel, status) ==
    [user_id |-> user_id, rule |-> rule, first_run_at |-> first_run_at,
     advance_minutes |-> advance_minutes, channel |-> channel, status |-> status]

\* A datetime is an instant and the UTC offset it carries; what strftime
\* prints is its wall clock, here as a number of ticks. A datetime in UTC
\* is the instant itself.
aware(instant, utcoffset) == instant + utcoffset

\* strftime("%Y-%m-%dT%H:%M"): the wall clock of dt cut down to its minute
_period_key(dt) == dt \div TicksPerMinute

\* A row of scheduler.job_runs as _ensure_job_runs builds it, and as
\* create_job does for a first_run_at given in UTC: the column is a
\* timestamptz, which keeps the instant
SchedulerJobRun(job_id, scheduled_at) ==
    [job_id |-> job_id, period_key |-> _period_key(scheduled_at),
     scheduled_at |-> scheduled_at, sent_at |-> NULL, status |-> "pending"]

\* A row of scheduler.reminders
SchedulerReminder(job_run_id, sent_at) ==
    [job_run_id |-> job_run_id, sent_at |-> sent_at]

\* A row of scheduler.confirmations
SchedulerConfirmation(job_run_id, action, idempotency_key, payload) ==
    [job_run_id |-> job_run_id, action |-> action,
     idempotency_key |-> idempotency_key, payload |-> payload]

\* job_runs without its unique constraint: every INSERT is accepted
uq_job_runs__dropped(rows) == TRUE

\* UniqueConstraint("job_id", "period_key") on a sequence of job_runs rows
uq_job_runs__job_period(rows) ==
    \A i, j \in DOMAIN rows :
        (rows[i].job_id = rows[j].job_id /\ rows[i].period_key = rows[j].period_key)
            => i = j

\* UniqueConstraint("job_run_id", "idempotency_key") on confirmations rows
uq_confirmations__run_idem(rows) ==
    \A i, j \in DOMAIN rows :
        (rows[i].job_run_id = rows[j].job_run_id
         /\ rows[i].idempotency_key = rows[j].idempotency_key) => i = j

----------------------------------------------------------------------------
(* Recurrence rules.  A rule string is kept as its prefix and the rest.    *)

Rule(prefix, expr) == [prefix |-> prefix, expr |-> expr]

EveryMinute == Rule("cron:", "* * * * *")
EveryOtherMinute == Rule("cron:", "*/2 * * * *")
BadCron == Rule("cron:", "bad")
EmptyCron == Rule("cron:", "")
OneShot == Rule("", "2024-06-01T00:00:00Z")

\* CronTrigger.from_crontab(expr): the period in minutes, 0 for ValueError
from_crontab(expr) ==
    CASE expr = "* * * * *" -> 1
      [] expr = "*/2 * * * *" -> 2
      [] OTHER -> 0

\* a parser that takes every rule for an every-minute cron rule
_parse_any_rule(rule) == [kind |-> "trigger", every |-> 1]

\* _parse_cron_rule: a trigger, None, or the ValueError of from_crontab
_parse_cron_rule(rule) ==
    IF rule.prefix \in {"cron:", "cron "}
    THEN IF rule.expr = ""
         THEN [kind |-> "None", every |-> 0]
         ELSE IF from_crontab(rule.expr) = 0
              THEN [kind |-> "ValueError", every |-> 0]
              ELSE [kind |-> "trigger", every |-> from_crontab(rule.expr)]
    ELSE [kind |-> "None", every |-> 0]

\* CronTrigger.get_next_fire_time(previous, previous): the first fire time
\* strictly after previous
get_next_fire_time(trigger, previous) ==
    LET step == trigger.every * TicksPerMinute
    IN  ((previous \div step) + 1) * step


----------------------------------------------------------------------------
(* Initial state: an empty store, every scheduler process and every API    *)
(* client idle.                                                            *)

IdleCycle ==
    [pc |-> "idle", now |-> 0, jobs |-> <<>>, adds |-> <<>>, cands |-> <<>>,
     sent |-> <<>>, failed |-> {}]

IdleRequest ==
    [pc |-> "idle", user_id |-> 0, job_run_id |-> 0, action |-> "",
     idempotency_key |-> "", payload |-> "", code |-> 0, id |-> 0,
     out_action |-> "", out_payload |-> "", run_status |-> ""]

Init ==
    /\ jobs = <<>>
    /\ job_runs = <<>>
    /\ reminders = <<>>
    /\ confirmations = <<>>
    /\ clock = 0
    /\ sched = [p \in Procs |-> IdleCycle]
    /\ req = [c \in Clients |-> IdleRequest]
    /\ sink_ok = {}
    /\ job_resp = 0

\* The wall clock advances
Tick ==
    /\ clock < MaxTime
    /\ clock' = clock + 1
    /\ UNCHANGED <<store, sched, req, sink_ok, job_resp>>

----------------------------------------------------------------------------
(* routers/scheduler.py: create_job                                        *)

\* a request model that accepts every advance_minutes
JobCreate_unchecked(advance_minutes) == TRUE

\* JobCreate: advance_minutes: int = Field(default=0, ge=0, le=10080); a
\* body that fails the validation is answered 422 before the handler runs
JobCreate(advance_minutes) == advance_minutes \in 0..10080

\* a handler that stores the job before it validates channel and status
create_job_store_first(user_id, rule, first_run_at, utcoffset, advance_minutes, channel, status) ==
    /\ jobs' = Append(jobs, SchedulerJob(user_id, rule, first_run_at,
                                         advance_minutes, channel, status))
    /\ job_runs' = Append(job_runs,
            [SchedulerJobRun(Len(jobs) + 1, first_run_at) EXCEPT
                !.period_key = _period_key(aware(first_run_at, utcoffset))])
    /\ job_resp' = IF channel # "telegram"
                        \/ status \notin {"active", "paused", "archived"}
                   THEN 422 ELSE 201
    /\ UNCHANGED <<reminders, confirmations, clock, sched, req, sink_ok>>

\* create_job: first_run_at is the instant the body names and utcoffset the
\* offset it was written with; the key is printed from the datetime as
\* parsed, the columns keep the instant
create_job(user_id, rule, first_run_at, utcoffset, advance_minutes, channel, status) ==
    /\ IF \/ ~JobCreate(advance_minutes)
          \/ channel # "telegram"
          \/ status \notin {"active", "paused", "archived"}
       THEN /\ job_resp' = 422
            /\ UNCHANGED store
       ELSE /\ jobs' = Append(jobs, SchedulerJob(user_id, rule, first_run_at,
                                                 advance_minutes, channel, status))
            /\ job_runs' = Append(job_runs,
                    [SchedulerJobRun(Len(jobs) + 1, first_run_at) EXCEPT
                        !.period_key =
                            _period_key(aware(first_run_at, utcoffset))])
            /\ job_resp' = 201
            /\ UNCHANGED <<reminders, confirmations>>
    /\ UNCHANGED <<clock, sched, req, sink_ok>>

----------------------------------------------------------------------------
(* tasks/scheduler_service.py: one _scan_and_notify cycle of process p,    *)
(* one step per statement that reads or writes the store or calls the bot. *)

\* the rows of a table with their ids, as a set
RunsOf(job_id) == {r \in Ids(job_runs) : job_runs[r].job_id = job_id}

\* order_by(scheduled_at.desc()).first() over the job's runs; 0 for no row
last_run(job_id) ==
    IF RunsOf(job_id) = {} THEN 0
    ELSE CHOOSE r \in RunsOf(job_id) :
            \A q \in RunsOf(job_id) :
                job_runs[q].scheduled_at <= job_runs[r].scheduled_at

\* a while loop without "created < 100"
RECURSIVE catch_up_uncapped(_, _, _, _, _)
catch_up_uncapped(job_id, trigger, next_time, now, created) ==
    IF next_time <= now
    THEN <<SchedulerJobRun(job_id, next_time)>>
         \o catch_up_uncapped(job_id, trigger,
                              get_next_fire_time(trigger, next_time),
                              now, created + 1)
    ELSE <<>>

\* the while loop of _ensure_job_runs
RECURSIVE catch_up(_, _, _, _, _)
catch_up(job_id, trigger, next_time, now, created) ==
    IF next_time <= now /\ created < MaxCreatedPerCall
    THEN <<SchedulerJobRun(job_id, next_time)>>
         \o catch_up(job_id, trigger, get_next_fire_time(trigger, next_time),
                     now, created + 1)
    ELSE <<>>

\* an _ensure_job_runs that goes on to the cron occurrences after the first
\* run in the call that creates it
_ensure_job_runs_catching_up(job_id, now) ==
    LET job == jobs[job_id]
        trigger == _parse_cron_rule(job.rule)
    IN  [raised |-> FALSE,
         adds |-> IF job.first_run_at <= now
                  THEN <<SchedulerJobRun(job_id, job.first_run_at)>>
                       \o catch_up(job_id, trigger,
                                   get_next_fire_time(trigger, job.first_run_at),
                                   now, 0)
                  ELSE <<>>]

\* _ensure_job_runs(job, db, now): the rows it adds to the session, or the
\* exception it raises
_ensure_job_runs(job_id, now) ==
    LET job == jobs[job_id]
        last == last_run(job_id)
        trigger == _parse_cron_rule(job.rule)
    IN  IF last = 0
        THEN [raised |-> FALSE,
              adds |-> IF job.first_run_at <= now
                       THEN <<SchedulerJobRun(job_id, job.first_run_at)>>
                       ELSE <<>>]
        ELSE IF trigger.kind = "ValueError"
             THEN [raised |-> TRUE, adds |-> <<>>]
             ELSE IF trigger.kind = "None"
                  THEN [raised |-> FALSE, adds |-> <<>>]
                  ELSE [raised |-> FALSE,
                        adds |-> catch_up(job_id, trigger,
                                     get_next_fire_time(trigger,
                                         job_runs[last].scheduled_at),
                                     now, 0)]

\* a jobs query without SchedulerJob.status == "active"
active_jobs_any_status(n) == [i \in 1..n |-> i]

\* the jobs query: active telegram jobs, ordered by id
RECURSIVE active_jobs(_)
active_jobs(n) ==
    IF n = 0 THEN <<>>
    ELSE IF jobs[n].status = "active" /\ jobs[n].channel = "telegram"
         THEN Append(active_jobs(n - 1), n)
         ELSE active_jobs(n - 1)

\* now = _now_dt(); db = SessionLocal(); jobs = db.query(SchedulerJob)...all()
CycleStart(p) ==
    /\ sched[p].pc = "idle"
    /\ sched' = [sched EXCEPT ![p] =
                    [IdleCycle EXCEPT !.pc = "materialize", !.now = clock,
                                      !.jobs = active_jobs(Len(jobs)),
                                      !.failed = sched[p].failed]]
    /\ UNCHANGED <<store, clock, req, sink_ok, job_resp>>

\* the session is closed by the finally clause: nothing of it is committed
Abort(p) ==
    [IdleCycle EXCEPT !.failed = sched[p].failed]

\* for job in jobs: _ensure_job_runs(job, db, now)  -- one job per step
Materialize(p) ==
    /\ sched[p].pc = "materialize"
    /\ sched[p].jobs # <<>>
    /\ LET res == _ensure_job_runs(Head(sched[p].jobs), sched[p].now)
       IN  sched' = [sched EXCEPT ![p] =
                IF res.raised
                THEN Abort(p)
                ELSE [@ EXCEPT !.jobs = Tail(@), !.adds = @ \o res.adds]]
    /\ UNCHANGED <<store, clock, req, sink_ok, job_resp>>

\* a commit that keeps the rows the unique constraint accepts when it
\* rejects another
CommitRuns_partial(p) ==
    /\ sched[p].pc = "materialize"
    /\ sched[p].jobs = <<>>
    /\ IF uq_job_runs__job_period(job_runs \o sched[p].adds)
       THEN /\ job_runs' = job_runs \o sched[p].adds
            /\ sched' = [sched EXCEPT ![p].pc = "scan", ![p].adds = <<>>]
       ELSE /\ job_runs' = job_runs \o
                    SelectSeq(sched[p].adds,
                        LAMBDA row : uq_job_runs__job_period(Append(job_runs, row)))
            /\ sched' = [sched EXCEPT ![p] = Abort(p)]
    /\ UNCHANGED <<jobs, reminders, confirmations, clock, req, sink_ok, job_resp>>

\* db.commit() after the loop: the INSERTs are flushed and committed, or the
\* unique constraint rejects one and IntegrityError ends the cycle
CommitRuns(p) ==
    /\ sched[p].pc = "materialize"
    /\ sched[p].jobs = <<>>
    /\ IF uq_job_runs__job_period(job_runs \o sched[p].adds)
       THEN /\ job_runs' = job_runs \o sched[p].adds
            /\ sched' = [sched EXCEPT ![p].pc = "scan", ![p].adds = <<>>]
       ELSE /\ job_runs' = job_runs
            /\ sched' = [sched EXCEPT ![p] = Abort(p)]
    /\ UNCHANGED <<jobs, reminders, confirmations, clock, req, sink_ok, job_resp>>


\* a filter without SchedulerJobRun.status == "pending"
Selectable_any_status ==
    {r \in Ids(job_runs) :
        LET job == jobs[job_runs[r].job_id]
            user == users[job.user_id]
        IN  /\ job.status = "active"
            /\ job.channel = "telegram"
            /\ user.telegram_user_id # NULL
            /\ user.is_bot_enabled}

\* the filter of the candidates query
Selectable ==
    {r \in Ids(job_runs) :
        LET job == jobs[job_runs[r].job_id]
            user == users[job.user_id]
        IN  /\ job.status = "active"
            /\ job.channel = "telegram"
            /\ job_runs[r].status = "pending"
            /\ user.telegram_user_id # NULL
            /\ user.is_bot_enabled}

\* a query without order_by: any SCHEDULER_BATCH_SIZE selectable runs, in
\* any order
candidates_unordered(s) ==
    /\ Len(s) = Min(Cardinality(Selectable), SCHEDULER_BATCH_SIZE)
    /\ \A i, j \in DOMAIN s : i < j => s[i] # s[j]

\* order_by(scheduled_at.asc()).limit(SCHEDULER_BATCH_SIZE): s is one of the
\* results the query can return (rows with equal scheduled_at come in any order)
candidates(s) ==
    /\ Len(s) = Min(Cardinality(Selectable), SCHEDULER_BATCH_SIZE)
    /\ \A i, j \in DOMAIN s : i < j =>
            /\ s[i] # s[j]
            /\ job_runs[s[i]].scheduled_at <= job_runs[s[j]].scheduled_at
    /\ \A r \in Selectable \ Range(s) : \A i \in DOMAIN s :
            job_runs[s[i]].scheduled_at <= job_runs[r].scheduled_at

\* candidates = db.query(SchedulerJobRun, SchedulerJob, User)...all()
Scan(p) ==
    /\ sched[p].pc = "scan"
    /\ \E s \in [1..Min(Cardinality(Selectable), SCHEDULER_BATCH_SIZE) -> Selectable] :
        /\ candidates(s)
        /\ sched' = [sched EXCEPT ![p].pc = "dispatch", ![p].cands = s,
                                  ![p].failed = {}]
    /\ UNCHANGED <<store, clock, req, sink_ok, job_resp>>

\* a due time that counts the advance twice
due_at_twice(r) ==
    job_runs[r].scheduled_at
        - 2 * jobs[job_runs[r].job_id].advance_minutes * TicksPerMinute

\* due_at = run.scheduled_at - timedelta(minutes=job.advance_minutes)
due_at(r) ==
    job_runs[r].scheduled_at
        - jobs[job_runs[r].job_id].advance_minutes * TicksPerMinute

\* if due_at > now: continue
DispatchNotDue(p) ==
    /\ sched[p].pc = "dispatch"
    /\ sched[p].cands # <<>>
    /\ due_at(Head(sched[p].cands)) > sched[p].now
    /\ sched' = [sched EXCEPT ![p].cands = Tail(@)]
    /\ UNCHANGED <<store, clock, req, sink_ok, job_resp>>

\* the dispatch loop without "if not ok: continue"
after_send_unchecked(cycle, r, ok) ==
    [cycle EXCEPT !.cands = Tail(@), !.sent = Append(@, r),
                  !.failed = IF ok THEN @ ELSE @ \cup {r}]

\* ok = await _send_bot_notification(...); if not ok: continue; else the run
\* and its reminder are changed in the session.  The bot's answers are
\* remembered: sink_ok holds the runs delivered at least once, failed the
\* runs the process could not deliver in its latest dispatch loop.
after_send(cycle, r, ok) ==
    IF ok
    THEN [cycle EXCEPT !.cands = Tail(@), !.sent = Append(@, r)]
    ELSE [cycle EXCEPT !.cands = Tail(@), !.failed = @ \cup {r}]

\* _send_bot_notification returned True
DispatchSent(p) ==
    /\ sched[p].pc = "dispatch"
    /\ sched[p].cands # <<>>
    /\ LET r == Head(sched[p].cands)
       IN  /\ due_at(r) <= sched[p].now
           /\ sched' = [sched EXCEPT ![p] = after_send(@, r, TRUE)]
           /\ sink_ok' = sink_ok \cup {r}
    /\ UNCHANGED <<store, clock, req, job_resp>>

\* _send_bot_notification returned False (rejection, exception, timeout)
DispatchFailed(p) ==
    /\ sched[p].pc = "dispatch"
    /\ sched[p].cands # <<>>
    /\ LET r == Head(sched[p].cands)
       IN  /\ due_at(r) <= sched[p].now
           /\ sched' = [sched EXCEPT ![p] = after_send(@, r, FALSE)]
    /\ UNCHANGED <<store, clock, req, sink_ok, job_resp>>

\* an UPDATE that sets sent_at and forgets the status
mark_sent_at_only(run, now) == [run EXCEPT !.sent_at = now]

\* an UPDATE that also moves the run to the time of the dispatch
mark_sent_rescheduled(run, now) == [run EXCEPT !.sent_at = now, !.status = "sent", !.scheduled_at = now]

\* the UPDATE of one run flushed by the second commit
mark_sent(run, now) == [run EXCEPT !.sent_at = now, !.status = "sent"]

\* a second commit that keeps only the reminders of the last dispatch
CommitDispatch_replacing(p) ==
    /\ sched[p].pc = "dispatch"
    /\ sched[p].cands = <<>>
    /\ job_runs' = [r \in DOMAIN job_runs |->
                        IF r \in Range(sched[p].sent)
                        THEN mark_sent(job_runs[r], sched[p].now)
                        ELSE job_runs[r]]
    /\ reminders' = [i \in DOMAIN sched[p].sent |->
                        SchedulerReminder(sched[p].sent[i], sched[p].now)]
    /\ sched' = [sched EXCEPT ![p] =
                    [IdleCycle EXCEPT !.failed = sched[p].failed]]
    /\ UNCHANGED <<jobs, confirmations, clock, req, sink_ok, job_resp>>

\* db.commit() after the dispatch loop: the UPDATEs of the runs marked sent
\* and the INSERTs of their reminders
CommitDispatch(p) ==
    /\ sched[p].pc = "dispatch"
    /\ sched[p].cands = <<>>
    /\ job_runs' = [r \in DOMAIN job_runs |->
                        IF r \in Range(sched[p].sent)
                        THEN mark_sent(job_runs[r], sched[p].now)
                        ELSE job_runs[r]]
    /\ reminders' = reminders \o
            [i \in DOMAIN sched[p].sent |->
                SchedulerReminder(sched[p].sent[i], sched[p].now)]
    /\ sched' = [sched EXCEPT ![p] =
                    [IdleCycle EXCEPT !.failed = sched[p].failed]]
    /\ UNCHANGED <<jobs, confirmations, clock, req, sink_ok, job_resp>>

\* the process dies, or the store or the session fails, in the middle of a
\* cycle: the open transaction is rolled back and the process starts afresh
Crash(p) ==
    /\ sched[p].pc # "idle"
    /\ sched' = [sched EXCEPT ![p] = IdleCycle]
    /\ UNCHANGED <<store, clock, req, sink_ok, job_resp>>

----------------------------------------------------------------------------
(* routers/scheduler.py: create_confirmation, called by client c           *)

ValidActions == {"complete", "skip", "snooze", "cancel"}

\* a check that the run exists, whoever owns its job
_require_any_job_run(job_run_id, user_id) ==
    /\ job_run_id \in Ids(job_runs)
    /\ job_runs[job_run_id].job_id \in Ids(jobs)

\* _require_job_run: the run exists and its job belongs to the caller
_require_job_run(job_run_id, user_id) ==
    /\ job_run_id \in Ids(job_runs)
    /\ job_runs[job_run_id].job_id \in Ids(jobs)
    /\ jobs[job_runs[job_run_id].job_id].user_id = user_id

\* a lookup that never finds a stored confirmation
existing_none(job_run_id, idempotency_key) == 0

\* a lookup by the key alone, whatever run the confirmation is of
existing_any_run(job_run_id, idempotency_key) ==
    LET found == {i \in Ids(confirmations) :
                    confirmations[i].idempotency_key = idempotency_key}
    IN  IF found = {} THEN 0 ELSE CHOOSE i \in found : \A j \in found : i <= j

\* the lookup of an existing confirmation: its id, 0 for none
existing(job_run_id, idempotency_key) ==
    LET found == {i \in Ids(confirmations) :
                    /\ confirmations[i].job_run_id = job_run_id
                    /\ confirmations[i].idempotency_key = idempotency_key}
    IN  IF found = {} THEN 0 ELSE CHOOSE i \in found : \A j \in found : i <= j

\* a mapping by which snooze puts the run back among the pending runs
status_of_reopening(action) == IF action = "snooze" THEN "pending" ELSE "confirmed"


\* the status an action gives the run
status_of(action) ==
    CASE action = "complete" -> "confirmed"
      [] action = "skip" -> "skipped"
      [] action = "snooze" -> "snoozed"
      [] action = "cancel" -> "cancelled"

\* the response: an HTTP status and, on success, the confirmation returned
Response(r, code, id) ==
    [r EXCEPT !.pc = "idle", !.code = code, !.id = id, !.run_status = "",
              !.out_action = IF id = 0 THEN "" ELSE confirmations[id].action,
              !.out_payload = IF id = 0 THEN "" ELSE confirmations[id].payload]

\* a handler that looks the run up before it validates the action
create_confirmation_late_check(c, user_id, job_run_id, action, idempotency_key, payload) ==
    /\ req[c].pc = "idle"
    /\ LET r == [IdleRequest EXCEPT !.user_id = user_id, !.job_run_id = job_run_id,
                    !.action = action, !.idempotency_key = idempotency_key,
                    !.payload = payload]
       IN  req' = [req EXCEPT ![c] =
                IF ~_require_job_run(job_run_id, user_id) THEN Response(r, 404, 0)
                ELSE IF action \notin ValidActions THEN Response(r, 422, 0)
                ELSE IF existing(job_run_id, idempotency_key) # 0
                     THEN Response(r, 201, existing(job_run_id, idempotency_key))
                     ELSE [r EXCEPT !.pc = "commit",
                                    !.run_status = job_runs[job_run_id].status]]
    /\ UNCHANGED <<store, clock, sched, sink_ok, job_resp>>

\* the handler up to the lookup: validation, ownership, replay.  run_status
\* is the status of the run as db.get loaded it into the session.
create_confirmation(c, user_id, job_run_id, action, idempotency_key, payload) ==
    /\ req[c].pc = "idle"
    /\ LET r == [IdleRequest EXCEPT !.user_id = user_id, !.job_run_id = job_run_id,
                    !.action = action, !.idempotency_key = idempotency_key,
                    !.payload = payload]
       IN  req' = [req EXCEPT ![c] =
                IF action \notin ValidActions THEN Response(r, 422, 0)
                ELSE IF ~_require_job_run(job_run_id, user_id) THEN Response(r, 404, 0)
                ELSE IF existing(job_run_id, idempotency_key) # 0
                     THEN Response(r, 201, existing(job_run_id, idempotency_key))
                     ELSE [r EXCEPT !.pc = "commit",
                                    !.run_status = job_runs[job_run_id].status]]
    /\ UNCHANGED <<store, clock, sched, sink_ok, job_resp>>

\* the status of the run after the flush: the UPDATE carries the columns
\* whose assigned value differs from the value the session loaded (the
\* unit of work compares them and leaves a column without a net change out
\* of the statement), so a status assigned the value it was loaded with
\* stays as the store has it
flushed_status(loaded, assigned, stored) ==
    IF assigned # loaded THEN assigned ELSE stored

\* a commit whose UPDATE of the run also clears sent_at
CommitConfirmation_clearing(c) ==
    /\ req[c].pc = "commit"
    /\ LET r == req[c]
           row == SchedulerConfirmation(r.job_run_id, r.action,
                                        r.idempotency_key, r.payload)
       IN  IF uq_confirmations__run_idem(Append(confirmations, row))
           THEN /\ confirmations' = Append(confirmations, row)
                /\ job_runs' = [job_runs EXCEPT
                                    ![r.job_run_id].status =
                                        flushed_status(r.run_status,
                                                       status_of(r.action), @),
                                    ![r.job_run_id].sent_at = NULL]
                /\ req' = [req EXCEPT ![c] =
                            [r EXCEPT !.pc = "idle", !.code = 201,
                                      !.run_status = "",
                                      !.id = Len(confirmations) + 1,
                                      !.out_action = r.action,
                                      !.out_payload = r.payload]]
           ELSE /\ UNCHANGED <<confirmations, job_runs>>
                /\ req' = [req EXCEPT ![c] = Response(r, 500, 0)]
    /\ UNCHANGED <<jobs, reminders, clock, sched, sink_ok, job_resp>>

\* db.commit(): the INSERT of the confirmation and the UPDATE of the run's
\* status are flushed and committed, or the unique constraint rejects the
\* INSERT and IntegrityError leaves the handler
CommitConfirmation(c) ==
    /\ req[c].pc = "commit"
    /\ LET r == req[c]
           row == SchedulerConfirmation(r.job_run_id, r.action,
                                        r.idempotency_key, r.payload)
       IN  IF uq_confirmations__run_idem(Append(confirmations, row))
           THEN /\ confirmations' = Append(confirmations, row)
                /\ job_runs' = [job_runs EXCEPT ![r.job_run_id].status =
                                    flushed_status(r.run_status,
                                                   status_of(r.action), @)]
                /\ req' = [req EXCEPT ![c] =
                            [r EXCEPT !.pc = "idle", !.code = 201,
                                      !.run_status = "",
                                      !.id = Len(confirmations) + 1,
                                      !.out_action = r.action,
                                      !.out_payload = r.payload]]
           ELSE /\ UNCHANGED <<confirmations, job_runs>>
                /\ req' = [req EXCEPT ![c] = Response(r, 500, 0)]
    /\ UNCHANGED <<jobs, reminders, clock, sched, sink_ok, job_resp>>


----------------------------------------------------------------------------
(* Specifications.  Each one runs the same handlers; they differ in the    *)
(* number of scheduler processes and clients and in the requests made.     *)

\* a step of a _scan_and_notify cycle of process p
Cycle(p) ==
    \/ CycleStart(p)
    \/ Materialize(p)
    \/ CommitRuns(p)
    \/ Scan(p)
    \/ DispatchNotDue(p)
    \/ DispatchSent(p)
    \/ DispatchFailed(p)
    \/ CommitDispatch(p)

\* Two scheduler processes dispatch the runs of one job while its owner
\* confirms the first run.
Next ==
    \/ Tick
    \/ (Len(jobs) < MaxDispatchJobs
            /\ create_job(1, EveryMinute, 0, 0, 0, "telegram", "active"))
    \/ \E p \in Procs : Cycle(p) \/ Crash(p)
    \/ create_confirmation(1, 1, 1, "complete", "k1", "p1")
    \/ CommitConfirmation(1)

Spec == Init /\ [][Next]_vars

\* One scheduler process, several jobs with good and bad rules.
NextJobs ==
    \/ Tick
    \/ \E rule \in {EveryMinute, BadCron}, first_run_at \in {0, 2} :
            (Len(jobs) < MaxJobs
                /\ create_job(1, rule, first_run_at, 0, 0, "telegram", "active"))
    \/ Cycle(1)
    \/ Crash(1)

SpecJobs == Init /\ [][NextJobs]_vars

\* Two scheduler processes materialize the runs of several jobs; the bot
\* accepts every message.
NextRace ==
    \/ Tick
    \/ (Len(jobs) < MaxJobs
            /\ create_job(1, EveryMinute, 0, 0, 0, "telegram", "active"))
    \/ \E p \in Procs :
        \/ CycleStart(p)
        \/ Materialize(p)
        \/ CommitRuns(p)
        \/ Scan(p)
        \/ DispatchNotDue(p)
        \/ DispatchSent(p)
        \/ CommitDispatch(p)

SpecRace == Init /\ [][NextRace]_vars

\* Two scheduler processes, either of which may die at any point, materialize
\* the runs of several jobs whose owner (user 2) has no telegram_user_id: the
\* candidates query selects none of their runs, so every cycle goes from the
\* scan straight to its final commit.
NextKeys ==
    \/ Tick
    \/ \E first_run_at \in {0, 2} :
        (Len(jobs) < MaxJobs
            /\ create_job(2, EveryMinute, first_run_at, 0, 0, "telegram", "active"))
    \/ \E p \in Procs :
        \/ CycleStart(p)
        \/ Materialize(p)
        \/ CommitRuns(p)
        \/ Scan(p)
        \/ CommitDispatch(p)
        \/ Crash(p)

SpecKeys == Init /\ [][NextKeys]_vars

\* One scheduler process, which the bot may refuse and which may die at any
\* point of a cycle, dispatches the runs of a few jobs while their owner
\* confirms the first run.
NextCrash ==
    \/ Tick
    \/ \E first_run_at \in {0, 2} :
        (Len(jobs) < MaxDispatchJobs
            /\ create_job(1, EveryMinute, first_run_at, 0, 0, "telegram", "active"))
    \/ Cycle(1)
    \/ Crash(1)
    \/ create_confirmation(1, 1, 1, "complete", "k1", "p1")
    \/ CommitConfirmation(1)

SpecCrash == Init /\ [][NextCrash]_vars

\* One scheduler process, which the bot may refuse, dispatches the runs of
\* several jobs of one owner, created with a first run now or later.
NextRetry ==
    \/ Tick
    \/ \E first_run_at \in {0, 2} :
        (Len(jobs) < MaxJobs
            /\ create_job(1, EveryMinute, first_run_at, 0, 0, "telegram", "active"))
    \/ Cycle(1)

SpecRetry == Init /\ [][NextRetry]_vars

\* Two clients confirm, as its owner, the run of one job, each call with one of
\* two keys and one of two bodies; one scheduler process.
NextConfirm ==
    \/ \E first_run_at \in {0, 2} :
            (Len(jobs) < MaxDispatchJobs
                /\ create_job(1, OneShot, first_run_at, 0, 0, "telegram", "active"))
    \/ Cycle(1)
    \/ \E c \in Clients, idempotency_key \in {"k1", "k2"},
          body \in {<<"complete", "p1">>, <<"skip", "p2">>} :
            ((existing(1, idempotency_key) # 0
                    \/ Len(confirmations) < MaxConfirmations)
                /\ create_confirmation(c, 1, 1, body[1], idempotency_key, body[2]))
    \/ \E c \in Clients : CommitConfirmation(c)

SpecConfirm == Init /\ [][NextConfirm]_vars

\* The jobs a client may create for the scan to choose from: first run now
\* or later, reminded in advance or not, owner linked to the bot or not,
\* active or paused.
DueJobs ==
    {[user_id |-> 1, first_run_at |-> 2, advance_minutes |-> 0, status |-> "active"],
     [user_id |-> 1, first_run_at |-> 4, advance_minutes |-> 1, status |-> "active"],
     [user_id |-> 2, first_run_at |-> 0, advance_minutes |-> 0, status |-> "active"],
     [user_id |-> 1, first_run_at |-> 0, advance_minutes |-> 0, status |-> "paused"]}

\* One scheduler process, which the bot may refuse, scans the runs of jobs
\* that differ in every input of the selection.
NextDue ==
    \/ Tick
    \/ \E j \in DueJobs :
        (Len(jobs) < MaxJobs
            /\ create_job(j.user_id, EveryMinute, j.first_run_at, 0,
                          j.advance_minutes, "telegram", j.status))
    \/ Cycle(1)

SpecDue == Init /\ [][NextDue]_vars

\* One scheduler process scans the runs of one job more than a batch holds;
\* each job has a single first run, scheduled later and reminded one minute
\* in advance, or scheduled sooner and not reminded in advance.
NextBatch ==
    \/ Tick
    \/ \E j \in {<<3, 0>>, <<4, 1>>} :
        (Len(jobs) < SCHEDULER_BATCH_SIZE + 1
            /\ create_job(1, OneShot, j[1], 0, j[2], "telegram", "active"))
    \/ Cycle(1)

SpecBatch == Init /\ [][NextBatch]_vars

\* Two scheduler processes materialize the runs of cron jobs whose first run
\* lies minutes in the past when they are created; the owner (user 2) has no
\* telegram_user_id, so no run is a candidate.
NextCatchUp ==
    \/ Tick
    \/ \E rule \in {EveryMinute, EveryOtherMinute}, first_run_at \in {-6, -1} :
        (Len(jobs) < MaxDispatchJobs
            /\ create_job(2, rule, first_run_at, 0, 0, "telegram", "active"))
    \/ \E p \in Procs :
        \/ CycleStart(p)
        \/ Materialize(p)
        \/ CommitRuns(p)
        \/ Scan(p)
        \/ CommitDispatch(p)

SpecCatchUp == Init /\ [][NextCatchUp]_vars

\* the steps of the cycles of process 1 when no run is a candidate
LiveCycle ==
    \/ CycleStart(1)
    \/ Materialize(1)
    \/ CommitRuns(1)
    \/ Scan(1)
    \/ CommitDispatch(1)

\* A single scheduler process that keeps running cycles (main re-enters
\* _scan_and_notify at every trigger) over cron jobs created with a first
\* run in the past or now, with rules from_crontab accepts or rejects.
NextLive ==
    \/ Tick
    \/ \E rule \in {EveryMinute, BadCron}, first_run_at \in {-6, 0} :
        (Len(jobs) < MaxJobs
            /\ create_job(2, rule, first_run_at, 0, 0, "telegram", "active"))
    \/ LiveCycle

SpecLive == Init /\ [][NextLive]_vars /\ WF_vars(LiveCycle)

\* One scheduler process, which the bot may refuse, dispatches the runs of
\* jobs whose rule is not a cron rule (a bare timestamp, or "cron:" with
\* nothing after it) while the owner confirms the first run.
NextOneShot ==
    \/ Tick
    \/ \E rule \in {OneShot, EmptyCron}, first_run_at \in {0, 2} :
        (Len(jobs) < MaxDispatchJobs
            /\ create_job(1, rule, first_run_at, 0, 0, "telegram", "active"))
    \/ Cycle(1)
    \/ create_confirmation(1, 1, 1, "complete", "k1", "p1")
    \/ CommitConfirmation(1)

SpecOneShot == Init /\ [][NextOneShot]_vars

\* the owner of the job of the candidate process p is about to handle
recipient(p) == jobs[job_runs[Head(sched[p].cands)].job_id].user_id

\* the steps of the cycles of process 1 when the bot delivers every message
\* to user 1 and none to user 3
StarveCycle ==
    \/ CycleStart(1)
    \/ Materialize(1)
    \/ CommitRuns(1)
    \/ Scan(1)
    \/ DispatchNotDue(1)
    \/ (sched[1].cands # <<>> /\ recipient(1) = 1 /\ DispatchSent(1))
    \/ (sched[1].cands # <<>> /\ recipient(1) = 3 /\ DispatchFailed(1))
    \/ CommitDispatch(1)

\* A single scheduler process that keeps running cycles; user 3 has an
\* every-minute job with a first run in the past, user 1 a job with a single
\* run.
NextStarve ==
    \/ Tick
    \/ \E j \in {<<3, EveryMinute, -2>>, <<1, OneShot, 1>>, <<1, OneShot, 3>>} :
        (Len(jobs) < MaxJobs
            /\ create_job(j[1], j[2], j[3], 0, 0, "telegram", "active"))
    \/ StarveCycle

SpecStarve == Init /\ [][NextStarve]_vars /\ WF_vars(StarveCycle)

\* main(): one process and its event loop.  Coroutine 1 is the task main
\* creates at start-up (loop.create_task(_scan_and_notify())), coroutine 2
\* the instance of the "scheduler-scan" job the AsyncIOScheduler starts when
\* SCHEDULER_SCAN_CRON fires; add_job leaves max_instances at 1, so a firing
\* is dropped while an earlier instance of the job is still running.  Each
\* coroutine has its own session.

\* coroutine p is not running: it has not started or has returned, or it is
\* suspended in await _send_bot_notification(...)
Suspended(p) ==
    \/ sched[p].pc = "idle"
    \/ /\ sched[p].pc = "dispatch"
       /\ sched[p].cands # <<>>
       /\ due_at(Head(sched[p].cands)) <= sched[p].now

\* the trigger of SCHEDULER_SCAN_CRON ("*/1 * * * *") fires at this time
cron_fired == clock > 0 /\ clock % TicksPerMinute = 0

\* the process has just started, at time 0, with one job of user 1 and its
\* first run in the store: the start-up task has read now and the jobs
InitMain ==
    /\ \E first_run_at \in {-2, 0, 2} :
        /\ jobs = <<SchedulerJob(1, EveryMinute, first_run_at, 0,
                                 "telegram", "active")>>
        /\ job_runs = <<SchedulerJobRun(1, first_run_at)>>
    /\ reminders = <<>>
    /\ confirmations = <<>>
    /\ clock = 0
    /\ sched = [p \in Procs |->
                    IF p = 1
                    THEN [IdleCycle EXCEPT !.pc = "materialize", !.now = 0,
                                           !.jobs = <<1>>]
                    ELSE IdleCycle]
    /\ req = [c \in Clients |-> IdleRequest]
    /\ sink_ok = {}
    /\ job_resp = 201

\* the event loop runs one coroutine at a time, up to its next await
NextMain ==
    \/ Tick
    \/ (Suspended(2)
            /\ (\/ Materialize(1) \/ CommitRuns(1) \/ Scan(1)
                \/ DispatchNotDue(1) \/ DispatchSent(1) \/ DispatchFailed(1)
                \/ CommitDispatch(1)))
    \/ (Suspended(1)
            /\ (\/ (cron_fired /\ CycleStart(2))
                \/ Materialize(2) \/ CommitRuns(2) \/ Scan(2)
                \/ DispatchNotDue(2) \/ DispatchSent(2) \/ DispatchFailed(2)
                \/ CommitDispatch(2)))

SpecMain == InitMain /\ [][NextMain]_vars

\* Client 1 is the owner (user 1) of the only job and confirms its run;
\* client 2 is user 2 and names that run or a run that does not exist; both
\* send an action the handler knows or one it does not.  One scheduler
\* process.
NextOwner ==
    \/ Tick
    \/ \E first_run_at \in {0, 2} :
        (Len(jobs) < MaxDispatchJobs
            /\ create_job(1, OneShot, first_run_at, 0, 0, "telegram", "active"))
    \/ Cycle(1)
    \/ \E action \in {"complete", "bogus"} :
            create_confirmation(1, 1, 1, action, "k1", "p1")
    \/ \E job_run_id \in {1, 9}, action \in {"complete", "bogus"} :
            create_confirmation(2, 2, job_run_id, action, "k1", "p2")
    \/ \E c \in Clients : CommitConfirmation(c)

SpecOwner == Init /\ [][NextOwner]_vars

\* the bodies clients post to /jobs: channels and statuses the handler
\* accepts or not, lead times inside and outside the accepted range
Channels == {"telegram", "email"}
Statuses == {"active", "paused", "archived", "deleted"}
Advances == {-1, 0, 10080, 10081}

\* Clients create jobs with any of these bodies; one scheduler process,
\* which the bot may refuse.
NextCreate ==
    \/ Tick
    \/ \E channel \in Channels, status \in Statuses, advance_minutes \in Advances :
        (Len(jobs) < MaxJobs
            /\ create_job(1, OneShot, 2, 0, advance_minutes, channel, status))
    \/ Cycle(1)

SpecCreate == Init /\ [][NextCreate]_vars

\* One scheduler process, which the bot may refuse, dispatches the runs of
\* an every-minute job while the owner resolves the first run with any of
\* the four actions.
NextResolve ==
    \/ Tick
    \/ \E first_run_at \in {0, 2} :
        (Len(jobs) < MaxDispatchJobs
            /\ create_job(1, EveryMinute, first_run_at, 0, 0, "telegram", "active"))
    \/ Cycle(1)
    \/ \E action \in ValidActions :
            create_confirmation(1, 1, 1, action, "k1", "p1")
    \/ CommitConfirmation(1)

SpecResolve == Init /\ [][NextResolve]_vars

----------------------------------------------------------------------------
(* Properties                                                              *)

\* the ids of the reminders and of the confirmations of run r
RemindersOf(r) == {i \in Ids(reminders) : reminders[i].job_run_id = r}
ConfirmationsOf(r) == {i \in Ids(confirmations) : confirmations[i].job_run_id = r}

\* C1: in every committed state of the store there is at most one job_runs
\* row for each (job_id, period_key), however create_job calls and the cycles
\* of the scheduler processes interleave.
C1_OneRunPerPeriod ==
    \A a, b \in Ids(job_runs) :
        (/\ job_runs[a].job_id = job_runs[b].job_id
         /\ job_runs[a].period_key = job_runs[b].period_key) => a = b

\* Two processes have materialized the same occurrence: one has committed
\* it, the other still holds it in its session.
C1_Witness ==
    \E p \in Procs : \E i \in DOMAIN sched[p].adds : \E r \in Ids(job_runs) :
        /\ sched[p].pc = "materialize"
        /\ sched[p].jobs = <<>>
        /\ job_runs[r].job_id = sched[p].adds[i].job_id
        /\ job_runs[r].period_key = sched[p].adds[i].period_key


\* C2: a create_confirmation call by the owner for a (job_run_id,
\* idempotency_key) pair that already has a committed confirmation returns
\* that stored row (its id, its stored action and payload, whatever the
\* replay carries), adds no row and leaves the runs alone; a status is
\* written for a pair only by the commit that inserts the pair's row, and
\* rows are never removed, so a pair changes the run's status at most once.
C2_ReplayReturnsStored ==
    [][/\ \A c \in Clients : \A i \in Ids(confirmations) :
            (/\ req[c].pc = "idle"
             /\ req'[c] # req[c]
             /\ req'[c].action \in ValidActions
             /\ _require_job_run(req'[c].job_run_id, req'[c].user_id)
             /\ confirmations[i].job_run_id = req'[c].job_run_id
             /\ confirmations[i].idempotency_key = req'[c].idempotency_key)
            => /\ req'[c].pc = "idle"
               /\ req'[c].code = 201
               /\ req'[c].id = i
               /\ req'[c].out_action = confirmations[i].action
               /\ req'[c].out_payload = confirmations[i].payload
               /\ confirmations' = confirmations
               /\ job_runs' = job_runs
       /\ \A c \in Clients :
            (/\ req[c].pc = "commit"
             /\ req'[c].pc = "idle"
             /\ job_runs' # job_runs)
            => /\ \A i \in Ids(confirmations) :
                    ~ /\ confirmations[i].job_run_id = req[c].job_run_id
                      /\ confirmations[i].idempotency_key = req[c].idempotency_key
               /\ Len(confirmations') = Len(confirmations) + 1
               /\ confirmations'[Len(confirmations')].job_run_id = req[c].job_run_id
               /\ confirmations'[Len(confirmations')].idempotency_key
                    = req[c].idempotency_key
       /\ Len(confirmations') >= Len(confirmations)
       /\ \A i \in Ids(confirmations) : confirmations'[i] = confirmations[i]
      ]_vars

\* A replay carrying another action and another payload than the stored
\* confirmation has been answered with the stored one.
C2_Witness ==
    \E c \in Clients :
        /\ req[c].pc = "idle"
        /\ req[c].code = 201
        /\ req[c].id \in Ids(confirmations)
        /\ req[c].action # req[c].out_action
        /\ req[c].payload # req[c].out_payload
        /\ confirmations[req[c].id].action = req[c].out_action

\* C3: when two create_confirmation calls with the same (job_run_id,
\* idempotency_key) interleave, both complete successfully: the duplicate-key
\* conflict is never surfaced to a caller as an error.
C3_ConflictNeverSurfaced ==
    \A c \in Clients : req[c].code # 500

\* C4 (first part): a run with status sent has had a successful bot call;
\* a process whose bot call failed for a run leaves the run's row and its
\* reminders as they are for the rest of the cycle, commit included.
C4_SentOnlyAfterDelivery ==
    \A r \in Ids(job_runs) : job_runs[r].status = "sent" => r \in sink_ok

C4_FailedLeftAlone ==
    \A p \in Procs : \A r \in Ids(job_runs) :
        (/\ sched[p].pc = "dispatch"
         /\ sched'[p] # sched[p]
         /\ r \in sched'[p].failed \cup sched[p].failed)
        => /\ job_runs'[r] = job_runs[r]
           /\ {i \in Ids(reminders') : reminders'[i].job_run_id = r} = RemindersOf(r)
           /\ job_runs[r].status = "pending" =>
                    (job_runs[r].sent_at = NULL /\ RemindersOf(r) = {})

\* the pending runs that precede r in the order of the candidates query, or
\* tie with it
Before(r) ==
    {q \in Selectable \ {r} : job_runs[q].scheduled_at <= job_runs[r].scheduled_at}

\* C4 as claimed: ... and the run is selected again by the next cycle's scan.
C4_Original ==
    /\ []C4_SentOnlyAfterDelivery
    /\ [][/\ C4_FailedLeftAlone
          /\ \A p \in Procs : \A r \in sched[p].failed :
                (/\ sched[p].pc = "scan"
                 /\ sched'[p].pc = "dispatch"
                 /\ r \in Selectable)
                => r \in Range(sched'[p].cands)
         ]_vars

\* C4 as amended: ... and the run is selected again by the next cycle's scan
\* when it is still selectable and fewer than SCHEDULER_BATCH_SIZE other
\* selectable runs are scheduled at or before its scheduled_at.
C4_FailedRunStaysPending ==
    /\ []C4_SentOnlyAfterDelivery
    /\ [][/\ C4_FailedLeftAlone
          /\ \A p \in Procs : \A r \in sched[p].failed :
                (/\ sched[p].pc = "scan"
                 /\ sched'[p].pc = "dispatch"
                 /\ r \in Selectable
                 /\ Cardinality(Before(r)) < SCHEDULER_BATCH_SIZE)
                => r \in Range(sched'[p].cands)
         ]_vars

\* A cycle in which the bot call failed for a run has ended, the run is
\* pending with no sent_at and no reminder, and the next cycle has selected
\* it again.
C4_Witness ==
    \E r \in Ids(job_runs) :
        /\ r \in sched[1].failed
        /\ sched[1].pc = "scan"
        /\ r \in Selectable
        /\ job_runs[r].status = "pending"
        /\ job_runs[r].sent_at = NULL
        /\ RemindersOf(r) = {}


\* C5: in every committed state, whatever process crashed or failed at
\* whatever point of a cycle, no pending run has a reminder and every sent
\* run has at least one.
C5_ReminderIffSent ==
    \A r \in Ids(job_runs) :
        /\ job_runs[r].status = "pending" => RemindersOf(r) = {}
        /\ job_runs[r].status = "sent" => RemindersOf(r) # {}

\* One run is sent and has its reminder; another was delivered by a cycle
\* that crashed before its commit and is pending without a reminder.
C5_Witness ==
    \E r, q \in Ids(job_runs) :
        /\ job_runs[r].status = "sent"
        /\ RemindersOf(r) # {}
        /\ q \in sink_ok
        /\ job_runs[q].status = "pending"
        /\ RemindersOf(q) = {}
        /\ \A p \in Procs : sched[p].pc = "idle"

\* C6: once a run is committed with status sent, no process calls the bot
\* for that run again.
C6_NoSendAfterSent ==
    [][\A p \in Procs :
            (DispatchSent(p) \/ DispatchFailed(p))
            => job_runs[Head(sched[p].cands)].status # "sent"]_vars

\* C7: the cycle's commit does not overwrite a status committed by
\* create_confirmation: a run that has a confirmation has a status in
\* {confirmed, skipped, snoozed, cancelled}.
C7_ConfirmedRunKeepsStatus ==
    \A r \in Ids(job_runs) :
        ConfirmationsOf(r) # {}
            => job_runs[r].status \in {"confirmed", "skipped", "snoozed", "cancelled"}

\* C8: once a run's committed status is confirmed, skipped or cancelled, no
\* later operation changes it.
C8_TerminalStatus ==
    [][\A r \in Ids(job_runs) :
            job_runs[r].status \in {"confirmed", "skipped", "cancelled"}
            => job_runs'[r].status = job_runs[r].status]_vars

\* C9: a cycle that meets a job whose cron expression cannot be parsed skips
\* only that job: it goes on with the other jobs of the cycle and keeps the
\* runs it has materialized for them.
C9_BadRuleSkipsOnlyItsJob ==
    [][\A p \in Procs :
            (/\ Materialize(p)
             /\ _parse_cron_rule(jobs[Head(sched[p].jobs)].rule).kind = "ValueError"
             /\ (Len(sched[p].jobs) > 1 \/ sched[p].adds # <<>>))
            => /\ sched'[p].pc = "materialize"
               /\ sched'[p].jobs = Tail(sched[p].jobs)
               /\ sched'[p].adds = sched[p].adds]_vars

\* the runs of the session of p that no committed run collides with
Accepted(p) ==
    {i \in DOMAIN sched[p].adds :
        \A r \in Ids(job_runs) :
            ~ /\ job_runs[r].job_id = sched[p].adds[i].job_id
              /\ job_runs[r].period_key = sched[p].adds[i].period_key}

\* C10: a process that loses the race for one occurrence still persists the
\* runs it created for its other jobs and goes on to scan and dispatch.
C10_LoserKeepsOtherRuns ==
    [][\A p \in Procs :
            (/\ CommitRuns(p)
             /\ Accepted(p) # DOMAIN sched[p].adds
             /\ Accepted(p) # {})
            => /\ sched'[p].pc = "scan"
               /\ \A i \in Accepted(p) :
                    \E r \in Ids(job_runs') : job_runs'[r] = sched[p].adds[i]]_vars


\* the sink is called for some run in this step of process p: the run leaves
\* the candidates and is recorded as delivered or as refused
SinkCalled(p) ==
    /\ sched[p].pc = "dispatch"
    /\ sched'[p].pc = "dispatch"
    /\ Len(sched'[p].cands) < Len(sched[p].cands)
    /\ (sched'[p].sent # sched[p].sent \/ sched'[p].failed # sched[p].failed)

\* a candidate is passed over in this step of process p without a sink call
SinkSkipped(p) ==
    /\ sched[p].pc = "dispatch"
    /\ sched'[p].pc = "dispatch"
    /\ Len(sched'[p].cands) < Len(sched[p].cands)
    /\ sched'[p].sent = sched[p].sent
    /\ sched'[p].failed = sched[p].failed

\* scheduled_at - advance_minutes of run r, in ticks
DueTime(r) ==
    job_runs[r].scheduled_at
        - jobs[job_runs[r].job_id].advance_minutes * TicksPerMinute

\* C11: every run the candidates query of a cycle returns is, in the rows
\* that query reads, pending, of an active telegram job, of an owner with a
\* telegram_user_id and is_bot_enabled; the cycle calls the sink only for
\* such a candidate and only if scheduled_at - advance_minutes <= now, and
\* passes a candidate over only if scheduled_at - advance_minutes > now.
C11_SinkOnlyForDueSelected ==
    [][\A p \in Procs :
        /\ (sched[p].pc = "scan" /\ sched'[p].pc = "dispatch")
            => \A i \in DOMAIN sched'[p].cands :
                LET r == sched'[p].cands[i]
                    job == jobs[job_runs[r].job_id]
                IN  /\ job_runs[r].status = "pending"
                    /\ job.status = "active"
                    /\ job.channel = "telegram"
                    /\ users[job.user_id].telegram_user_id # NULL
                    /\ users[job.user_id].is_bot_enabled
        /\ SinkCalled(p) => DueTime(Head(sched[p].cands)) <= sched[p].now
        /\ SinkSkipped(p) => DueTime(Head(sched[p].cands)) > sched[p].now
      ]_vars

\* A run reminded one minute in advance was delivered by a cycle whose now
\* is exactly its due time, before its scheduled time.
C11_Witness ==
    \E r \in Ids(job_runs) :
        /\ jobs[job_runs[r].job_id].advance_minutes > 0
        /\ job_runs[r].status = "sent"
        /\ job_runs[r].sent_at = DueTime(r)
        /\ job_runs[r].sent_at < job_runs[r].scheduled_at
        /\ r \in sink_ok

\* C12: the runs a cycle attempts are the min(|D|, SCHEDULER_BATCH_SIZE) runs
\* of D with the smallest scheduled_at, D being the runs that satisfy the
\* whole selection predicate, due time included, when the cycle scans.
C12_BatchOfDueRuns ==
    [][\A p \in Procs :
        (sched[p].pc = "scan" /\ sched'[p].pc = "dispatch")
        => LET D == {r \in Selectable : DueTime(r) <= sched[p].now}
               attempted == {r \in Range(sched'[p].cands) :
                                DueTime(r) <= sched[p].now}
           IN  /\ Cardinality(attempted)
                    = Min(Cardinality(D), SCHEDULER_BATCH_SIZE)
               /\ \A r \in attempted : \A q \in D \ attempted :
                    job_runs[r].scheduled_at <= job_runs[q].scheduled_at
      ]_vars

\* the rows a session holds for job j
AddsOf(p, j) == {i \in DOMAIN sched[p].adds : sched[p].adds[i].job_id = j}

\* C13: one _ensure_job_runs call, for one job, adds at most
\* MaxCreatedPerCall (100 in the code) runs to the session, however many
\* occurrences are missing.
C13_AtMostCapPerCall ==
    [][\A p \in Procs :
        (/\ sched[p].pc = "materialize"
         /\ sched'[p].pc = "materialize"
         /\ Len(sched'[p].jobs) < Len(sched[p].jobs))
        => Len(sched'[p].adds) - Len(sched[p].adds) <= MaxCreatedPerCall
      ]_vars

\* A call has added MaxCreatedPerCall runs for a job and stopped although the
\* occurrence after the last of them is not later than now.
C13_Witness ==
    \E p \in Procs : \E j \in Ids(jobs) :
        /\ sched[p].pc = "materialize"
        /\ Cardinality(AddsOf(p, j)) = MaxCreatedPerCall
        /\ _parse_cron_rule(jobs[j].rule).kind = "trigger"
        /\ \E i \in AddsOf(p, j) :
            /\ \A k \in AddsOf(p, j) :
                    sched[p].adds[k].scheduled_at <= sched[p].adds[i].scheduled_at
            /\ get_next_fire_time(_parse_cron_rule(jobs[j].rule),
                                  sched[p].adds[i].scheduled_at) <= sched[p].now

\* job j is active and its rule is a cron rule from_crontab accepts
ValidCron(j) ==
    /\ j \in Ids(jobs)
    /\ jobs[j].status = "active"
    /\ _parse_cron_rule(jobs[j].rule).kind = "trigger"

\* t is an occurrence of job j: its first run, or a fire time of its rule
\* after the first run
IsOccurrence(j, t) ==
    \/ t = jobs[j].first_run_at
    \/ /\ t > jobs[j].first_run_at
       /\ t % (_parse_cron_rule(jobs[j].rule).every * TicksPerMinute) = 0

\* the runs of job j form a chain without gaps
GapFree(j) ==
    \A r \in RunsOf(j) :
        /\ \A q \in RunsOf(j) :
                job_runs[q].scheduled_at = job_runs[r].scheduled_at => q = r
        /\ \/ job_runs[r].scheduled_at = jobs[j].first_run_at
           \/ \E q \in RunsOf(j) :
                get_next_fire_time(_parse_cron_rule(jobs[j].rule),
                                   job_runs[q].scheduled_at)
                    = job_runs[r].scheduled_at

\* C14: for an active job with a valid cron rule the committed runs always
\* form a gap-free chain from the first run, and with a single process that
\* keeps running cycles every occurrence that is not later than the clock
\* is eventually a committed run.
C14_NoSkipNoReorder ==
    /\ [](\A j \in Ids(jobs) : ValidCron(j) => GapFree(j))
    /\ \A j \in 1..MaxJobs : \A t \in -6..MaxTime :
            (ValidCron(j) /\ IsOccurrence(j, t) /\ t <= clock)
                ~> (\E r \in RunsOf(j) : job_runs[r].scheduled_at = t)

\* C15: a job whose rule is not a cron rule never has more than one run.
C15_OneRunForNonCron ==
    \A j \in Ids(jobs) :
        jobs[j].rule.prefix \notin {"cron:", "cron "} \/ jobs[j].rule.expr = ""
            => Cardinality(RunsOf(j)) <= 1

\* The run of such a job is no longer pending, and a cycle that started
\* later than the run was scheduled and sent has committed its
\* materialization.
C15_Witness ==
    \E j \in Ids(jobs) : \E r \in RunsOf(j) : \E p \in Procs :
        /\ jobs[j].rule.prefix \notin {"cron:", "cron "} \/ jobs[j].rule.expr = ""
        /\ job_runs[r].status \in {"sent", "confirmed"}
        /\ job_runs[r].sent_at # NULL
        /\ sched[p].pc = "scan"
        /\ sched[p].now > job_runs[r].scheduled_at
        /\ sched[p].now > job_runs[r].sent_at

\* the ids a run can have
RunIds == 1..(MaxJobs * (MaxTime + 4))

\* C16: a run of user 1, to whom the bot delivers, that is pending and due,
\* of an active job, is eventually sent when cycles keep being executed,
\* whatever other runs fail at the sink.
C16_DueRunEventuallySent ==
    \A r \in RunIds :
        (/\ r \in Selectable
         /\ DueTime(r) <= clock
         /\ jobs[job_runs[r].job_id].user_id = 1)
            ~> (r \in Ids(job_runs) /\ job_runs[r].status = "sent")

\* C17: within one process the start-up cycle and a cron-triggered cycle are
\* never in progress at the same time.
C17_NoOverlap ==
    ~(sched[1].pc # "idle" /\ sched[2].pc # "idle")

\* C18: a run is created only for an occurrence that is already due: every
\* row added to job_runs, by create_job or by a cycle, has a scheduled_at
\* not later than the time at which it is added.
C18_RunsCreatedWhenDue ==
    [][\A r \in (1..Len(job_runs')) \ Ids(job_runs) :
            job_runs'[r].scheduled_at <= clock
      ]_vars

\* client c's call is handled in this step
Called(c) == req[c].pc = "idle" /\ req'[c] # req[c]

\* the caller of the request is not the owner of the job of the run it
\* names, or the run does not exist
NotOwned(r) ==
    \/ r.job_run_id \notin Ids(job_runs)
    \/ jobs[job_runs[r.job_run_id].job_id].user_id # r.user_id

\* C19: a call with a valid action by a caller who does not own the run's
\* job has the outcome of a call for a run that does not exist: 404, no
\* confirmation returned, nothing written, whatever the run's state and
\* whether or not the key is already stored for the run.
C19_NonOwnerSeesAbsence ==
    [][\A c \in Clients :
        (/\ Called(c)
         /\ req'[c].action \in {"complete", "skip", "snooze", "cancel"}
         /\ NotOwned(req'[c]))
        => /\ req'[c] = [IdleRequest EXCEPT
                            !.user_id = req'[c].user_id,
                            !.job_run_id = req'[c].job_run_id,
                            !.action = req'[c].action,
                            !.idempotency_key = req'[c].idempotency_key,
                            !.payload = req'[c].payload,
                            !.code = 404]
           /\ store' = store
      ]_vars

\* User 2 has been answered 404 for the run of user 1 with a key that is
\* stored for that run, which is confirmed.
C19_Witness ==
    /\ req[2].pc = "idle"
    /\ req[2].code = 404
    /\ req[2].user_id = 2
    /\ req[2].job_run_id = 1
    /\ req[2].action = "complete"
    /\ existing(1, req[2].idempotency_key) # 0
    /\ job_runs[1].status = "confirmed"

\* C20: a call with an action outside {complete, skip, snooze, cancel} is
\* answered 422 and writes nothing: no confirmation, no change of a run.
C20_InvalidActionRejected ==
    [][\A c \in Clients :
        (Called(c)
         /\ req'[c].action \notin {"complete", "skip", "snooze", "cancel"})
        => /\ req'[c].pc = "idle"
           /\ req'[c].code = 422
           /\ req'[c].id = 0
           /\ store' = store
      ]_vars

\* The owner of a run that exists has been answered 422 for an unknown
\* action; the run has no confirmation and is still pending.
C20_Witness ==
    /\ req[1].pc = "idle"
    /\ req[1].code = 422
    /\ req[1].action = "bogus"
    /\ req[1].job_run_id \in Ids(job_runs)
    /\ job_runs[req[1].job_run_id].status = "pending"
    /\ confirmations = <<>>

\* C21: a create_job call with a channel other than telegram or a status
\* outside {active, paused, archived} is answered 422 and adds neither a
\* job nor a run; every job in the store has a channel and a status the
\* handler accepts.
C21_InvalidJobRejected ==
    /\ [](\A j \in Ids(jobs) :
            /\ jobs[j].channel = "telegram"
            /\ jobs[j].status \in {"active", "paused", "archived"})
    /\ [][\A channel \in Channels, status \in Statuses,
             advance_minutes \in Advances :
            (/\ channel # "telegram"
                    \/ status \notin {"active", "paused", "archived"}
             /\ create_job(1, OneShot, 2, 0, advance_minutes,
                           channel, status))
            => (job_resp' = 422 /\ store' = store)
        ]_vars

\* A call has been answered 422 after another had stored a job.
C21_Witness ==
    /\ job_resp = 422
    /\ Len(jobs) = 1
    /\ Len(job_runs) = 1

\* C30: every job in the store has 0 <= advance_minutes <= 10080: a
\* create_job call with a lead time outside that range is answered 422 and
\* stores nothing, and no step changes the advance_minutes of a job.
C30_AdvanceInRange ==
    /\ [](\A j \in Ids(jobs) :
            jobs[j].advance_minutes >= 0 /\ jobs[j].advance_minutes <= 10080)
    /\ [][/\ \A channel \in Channels, status \in Statuses,
               advance_minutes \in Advances :
                (/\ advance_minutes < 0 \/ advance_minutes > 10080
                 /\ create_job(1, OneShot, 2, 0, advance_minutes,
                               channel, status))
                => (job_resp' = 422 /\ store' = store)
          /\ \A j \in Ids(jobs) :
                jobs'[j].advance_minutes = jobs[j].advance_minutes
        ]_vars

\* A job with the longest lead time is stored and its run has been sent;
\* the latest call was answered 422.
C30_Witness ==
    \E j \in Ids(jobs) : \E r \in RunsOf(j) :
        /\ jobs[j].advance_minutes = 10080
        /\ job_runs[r].status = "sent"
        /\ job_resp = 422

\* C22: the commit of a first-time create_confirmation that is answered 201
\* adds exactly one confirmation, with the request's run, action, key and
\* payload, and leaves the run with the status the action maps to; the
\* confirmation and the status are written by that one step.
C22_ConfirmationSetsStatus ==
    [][\A c \in Clients :
        (req[c].pc = "commit" /\ req'[c].pc = "idle" /\ req'[c].code = 201)
        => /\ confirmations' =
                Append(confirmations,
                       SchedulerConfirmation(req[c].job_run_id, req[c].action,
                                             req[c].idempotency_key,
                                             req[c].payload))
           /\ job_runs'[req[c].job_run_id].status =
                (CASE req[c].action = "complete" -> "confirmed"
                   [] req[c].action = "skip" -> "skipped"
                   [] req[c].action = "snooze" -> "snoozed"
                   [] req[c].action = "cancel" -> "cancelled")
      ]_vars

\* s is what is left of t after its first elements are removed
IsSuffix(s, t) ==
    /\ Len(s) <= Len(t)
    /\ \A i \in DOMAIN s : s[i] = t[i + Len(t) - Len(s)]

\* C23: no step sets the status of a run back to pending; the candidates of
\* a cycle are runs that are pending when the cycle scans, and the cycle
\* calls the sink only for its candidates.  A run whose status is committed
\* as snoozed, confirmed, skipped, cancelled or sent before a cycle starts
\* is therefore still not pending when that cycle scans, is not one of its
\* candidates and gets no sink call from it.
C23_ResolvedRunsStayResolved ==
    [][/\ \A r \in Ids(job_runs) :
            job_runs[r].status # "pending" => job_runs'[r].status # "pending"
       /\ \A p \in Procs :
            /\ (sched[p].pc = "scan" /\ sched'[p].pc = "dispatch")
                => \A i \in DOMAIN sched'[p].cands :
                        job_runs[sched'[p].cands[i]].status = "pending"
            /\ (sched[p].pc = "dispatch" /\ sched'[p].pc = "dispatch")
                => IsSuffix(sched'[p].cands, sched[p].cands)
            /\ SinkCalled(p)
                => \/ sched'[p].sent = Append(sched[p].sent, Head(sched[p].cands))
                   \/ sched'[p].failed = sched[p].failed \cup {Head(sched[p].cands)}
      ]_vars

\* A run that was never delivered is snoozed and due, and a cycle that has
\* scanned since then is dispatching other runs without it.
C23_Witness ==
    \E r \in Ids(job_runs) :
        /\ job_runs[r].status = "snoozed"
        /\ r \notin sink_ok
        /\ sched[1].pc = "dispatch"
        /\ sched[1].cands # <<>>
        /\ r \notin Range(sched[1].cands)
        /\ r \notin Range(sched[1].sent)
        /\ r \notin sched[1].failed
        /\ DueTime(r) <= sched[1].now

\* C24: within one cycle the sink is called in non-decreasing order of
\* scheduled_at: when it is called for a run, every run the cycle has
\* already attempted, delivered or refused, is scheduled no later.
C24_OldestFirst ==
    [][\A p \in Procs :
        SinkCalled(p)
        => \A q \in Range(sched[p].sent) \cup sched[p].failed :
                job_runs[q].scheduled_at
                    <= job_runs[Head(sched[p].cands)].scheduled_at
      ]_vars

\* A cycle has delivered a run after the bot refused one scheduled earlier.
C24_Witness ==
    \E p \in Procs :
        /\ sched[p].pc = "dispatch"
        /\ Len(sched[p].sent) = 1
        /\ sched[p].failed # {}
        /\ \E q \in sched[p].failed :
            job_runs[q].scheduled_at < job_runs[sched[p].sent[1]].scheduled_at

\* the sink accepts the message for the run process p is handling
Delivered(p) == SinkCalled(p) /\ sched'[p].sent # sched[p].sent

\* C25: the time a dispatch records is the instant of the delivery: when
\* the sink accepts a run, the time the cycle is going to write (its now)
\* is the time of the clock, and the commit of the cycle writes that time
\* to the run's sent_at and to exactly one new reminder of the run.
C25_SentAtIsDeliveryTime ==
    [][\A p \in Procs :
        /\ Delivered(p) => sched[p].now = clock
        /\ (sched[p].pc = "dispatch" /\ sched'[p].pc = "idle"
                /\ reminders' # reminders)
            => \A i \in DOMAIN sched[p].sent :
                LET r == sched[p].sent[i]
                    new == {k \in (1..Len(reminders')) \ Ids(reminders) :
                                reminders'[k].job_run_id = r}
                IN  /\ job_runs'[r].sent_at = sched[p].now
                    /\ Cardinality(new) = 1
                    /\ \A k \in new : reminders'[k].sent_at = sched[p].now
      ]_vars

\* The offsets a first_run_at is written with: -00:01, Z, +00:01
UtcOffsets == {-TicksPerMinute, 0, TicksPerMinute}

\* One scheduler process materializes and dispatches the runs of every-minute
\* jobs whose first_run_at was written with some UTC offset.
NextOffset ==
    \/ Tick
    \/ \E first_run_at \in {0, 2}, utcoffset \in UtcOffsets :
        (Len(jobs) < MaxJobs
            /\ create_job(1, EveryMinute, first_run_at, utcoffset, 0,
                          "telegram", "active"))
    \/ Cycle(1)

SpecOffset == Init /\ [][NextOffset]_vars

\* the minute of an instant, in UTC
MinuteOf(instant) == instant \div TicksPerMinute

\* C26: the period key is a canonical function of the scheduled minute: two
\* runs of one job have equal keys exactly when they are scheduled in the
\* same minute, and a scheduler process never commits the INSERT of a run
\* whose key is that of a stored run of the job scheduled at another
\* instant.
C26_PeriodKeyCanonical ==
    /\ [](\A a, b \in Ids(job_runs) :
            job_runs[a].job_id = job_runs[b].job_id
            => (job_runs[a].period_key = job_runs[b].period_key
                <=> MinuteOf(job_runs[a].scheduled_at)
                        = MinuteOf(job_runs[b].scheduled_at)))
    /\ [][\A p \in Procs :
            (sched[p].pc = "materialize" /\ sched[p].jobs = <<>>
                /\ sched'[p].pc # "materialize")
            => \A i \in DOMAIN sched[p].adds : \A r \in Ids(job_runs) :
                (/\ job_runs[r].job_id = sched[p].adds[i].job_id
                 /\ job_runs[r].period_key = sched[p].adds[i].period_key)
                => job_runs[r].scheduled_at = sched[p].adds[i].scheduled_at
         ]_vars

\* One scheduler process runs over every-minute jobs, the first one created
\* paused or archived and the later ones active, while the owner confirms
\* the first run.
NextPaused ==
    \/ Tick
    \/ \E status \in {"paused", "archived"} :
        (Len(jobs) = 0
            /\ create_job(1, EveryMinute, 0, 0, 0, "telegram", status))
    \/ \E first_run_at \in {0, 2} :
        (Len(jobs) \in 1..(MaxJobs - 1)
            /\ create_job(1, EveryMinute, first_run_at, 0, 0, "telegram", "active"))
    \/ Cycle(1)
    \/ create_confirmation(1, 1, 1, "complete", "k1", "p1")
    \/ CommitConfirmation(1)

SpecPaused == Init /\ [][NextPaused]_vars

\* the job of run r is paused or archived
Inactive(r) == jobs[job_runs[r].job_id].status \in {"paused", "archived"}

\* a step of a scheduler cycle
CycleStep == \E p \in Procs : sched'[p] # sched[p]

\* C27: runs are materialized and dispatched only for active jobs: a step of
\* a scheduler cycle adds no run of a paused or archived job and leaves
\* every run of such a job as it is, and the sink is never called for one.
C27_OnlyActiveJobs ==
    [][/\ CycleStep
            => \A r \in Ids(job_runs') :
                Inactive(r)' => r \in Ids(job_runs) /\ job_runs'[r] = job_runs[r]
       /\ \A p \in Procs :
            SinkCalled(p) => ~Inactive(Head(sched[p].cands))
      ]_vars

\* A cycle has delivered a run of an active job at a time when an older run,
\* of a paused or archived job, was pending and due; that run is pending
\* still or has been confirmed by its owner.
C27_Witness ==
    \E r, q \in Ids(job_runs) :
        /\ Inactive(r)
        /\ r < q
        /\ job_runs[q].status = "sent"
        /\ DueTime(r) <= job_runs[q].sent_at
        /\ job_runs[r].status = "confirmed"

\* C28: scheduled_at, job_id and period_key of a run never change: every
\* step keeps every stored run, with these three columns as they were.
C28_RunIdentityImmutable ==
    [][\A r \in Ids(job_runs) :
        /\ r \in Ids(job_runs')
        /\ job_runs'[r].scheduled_at = job_runs[r].scheduled_at
        /\ job_runs'[r].job_id = job_runs[r].job_id
        /\ job_runs'[r].period_key = job_runs[r].period_key
      ]_vars

\* A run has been delivered by a cycle and resolved by its owner, and a
\* cycle has created a later run of the job.
C28_Witness ==
    \E r \in Ids(job_runs) :
        /\ job_runs[r].sent_at # NULL
        /\ job_runs[r].status \in {"confirmed", "skipped", "snoozed", "cancelled"}
        /\ r < Len(job_runs)
        /\ \E k \in Ids(confirmations) : confirmations[k].job_run_id = r

\* One scheduler process dispatches the runs of an every-minute job while
\* the owner confirms the first run with either of two keys.
NextLog ==
    \/ Tick
    \/ \E first_run_at \in {0, 2} :
        (Len(jobs) < MaxDispatchJobs
            /\ create_job(1, EveryMinute, first_run_at, 0, 0, "telegram", "active"))
    \/ Cycle(1)
    \/ \E idempotency_key \in {"k1", "k2"} :
            create_confirmation(1, 1, 1, "complete", idempotency_key, "p1")
    \/ CommitConfirmation(1)

SpecLog == Init /\ [][NextLog]_vars

\* s is the beginning of t
IsPrefix(s, t) ==
    /\ Len(s) <= Len(t)
    /\ \A i \in DOMAIN s : s[i] = t[i]

\* C29: reminders and confirmations are append-only: every step keeps every
\* committed row of the two tables as it is and only adds rows after them.
C29_AppendOnlyLogs ==
    [][/\ IsPrefix(reminders, reminders')
       /\ IsPrefix(confirmations, confirmations')
      ]_vars

\* Two dispatches and two confirmations have been committed one after the
\* other: each table holds two rows.
C29_Witness ==
    /\ Len(reminders) >= 2
    /\ Len(confirmations) >= 2
    /\ reminders[1].sent_at < reminders[2].sent_at

\* The first_run_at of a job row that has no run yet: before the start,
\* at the start, after it
SeedFirstRuns == {-2, 0, 2}

\* The store holds one every-minute job and no run of it: the input of the
\* first branch of _ensure_job_runs
InitEnsure ==
    /\ \E first_run_at \in SeedFirstRuns :
            jobs = <<SchedulerJob(1, EveryMinute, first_run_at, 0,
                                  "telegram", "active")>>
    /\ job_runs = <<>>
    /\ reminders = <<>>
    /\ confirmations = <<>>
    /\ clock = 0
    /\ sched = [p \in Procs |-> IdleCycle]
    /\ req = [c \in Clients |-> IdleRequest]
    /\ sink_ok = {}
    /\ job_resp = 0

\* One scheduler process runs over the job without a run and over one-shot
\* jobs a client creates with their first run.
NextEnsure ==
    \/ Tick
    \/ (Len(jobs) < MaxJobs
            /\ create_job(1, OneShot, 2, 0, 0, "telegram", "active"))
    \/ Cycle(1)

SpecEnsure == InitEnsure /\ [][NextEnsure]_vars

\* process p calls _ensure_job_runs for job j
EnsureCalled(p, j) ==
    /\ sched[p].pc = "materialize"
    /\ sched[p].jobs # <<>>
    /\ Head(sched[p].jobs) = j
    /\ sched'[p] # sched[p]

\* C31: _ensure_job_runs called for a job that has no run adds exactly one
\* run, scheduled at first_run_at, pending and with no sent_at, when
\* first_run_at <= now, and adds nothing when first_run_at > now; it adds no
\* run of a later occurrence in that call.
C31_FirstRunOnly ==
    [][\A p \in Procs : \A j \in Ids(jobs) :
        (EnsureCalled(p, j) /\ RunsOf(j) = {})
        => /\ sched'[p].pc = "materialize"
           /\ sched'[p].adds = sched[p].adds \o
                (IF jobs[j].first_run_at <= sched[p].now
                 THEN <<[job_id |-> j,
                         period_key |-> _period_key(jobs[j].first_run_at),
                         scheduled_at |-> jobs[j].first_run_at,
                         sent_at |-> NULL, status |-> "pending"]>>
                 ELSE <<>>)
      ]_vars

\* A cycle has stored the first run of a job whose later occurrences were
\* due as well when it ran: that run is the only run of the job.
C31_Witness ==
    \E p \in Procs : \E j \in Ids(jobs) :
        /\ sched[p].pc = "scan"
        /\ Cardinality(RunsOf(j)) = 1
        /\ \A r \in RunsOf(j) :
            /\ job_runs[r].scheduled_at = jobs[j].first_run_at
            /\ get_next_fire_time(_parse_cron_rule(jobs[j].rule),
                                  jobs[j].first_run_at) <= sched[p].now

\* C32: in every committed state the sent_at of a run is set exactly when
\* some reminder references the run, and the commit of a confirmation
\* leaves the sent_at of every run as it is.
C32_SentAtIffReminder ==
    /\ [](\A r \in Ids(job_runs) :
            job_runs[r].sent_at # NULL <=> RemindersOf(r) # {})
    /\ [][\A c \in Clients :
            (req[c].pc = "commit" /\ req'[c].pc = "idle")
            => \A r \in Ids(job_runs) :
                    job_runs'[r].sent_at = job_runs[r].sent_at
         ]_vars

\* A delivered run has been confirmed by its owner and keeps its sent_at and
\* its reminder, beside a run that was never delivered.
C32_Witness ==
    \E r, q \in Ids(job_runs) :
        /\ job_runs[r].status = "confirmed"
        /\ job_runs[r].sent_at # NULL
        /\ RemindersOf(r) # {}
        /\ job_runs[q].sent_at = NULL
        /\ RemindersOf(q) = {}

\* The jobs a client creates for a cycle to fail on: every-minute jobs with a
\* first run now or later, one written with the offset +00:01, and a job
\* whose cron expression from_crontab rejects
AbortJobs ==
    {<<EveryMinute, 0, 0>>, <<EveryMinute, 2, 0>>,
     <<EveryMinute, 0, TicksPerMinute>>, <<BadCron, 0, 0>>}

\* One scheduler process, which the bot may refuse, runs over these jobs.
NextAbort ==
    \/ Tick
    \/ \E j \in AbortJobs :
        (Len(jobs) < MaxJobs
            /\ create_job(1, j[1], j[2], j[3], 0, "telegram", "active"))
    \/ Cycle(1)

SpecAbort == Init /\ [][NextAbort]_vars

\* the cycle of process p ends in its materialization phase
MaterializationFails(p) ==
    /\ sched[p].pc = "materialize"
    /\ sched'[p].pc = "idle"

\* C33: a cycle that fails while it materializes runs, by an exception of
\* _ensure_job_runs or by a failing commit, persists nothing: no step of the
\* cycle up to the failure and not the failure itself changes the store,
\* and the cycle ends without a run sent.
C33_FailedMaterializationPersistsNothing ==
    [][\A p \in Procs :
        /\ (sched[p].pc = "idle" /\ sched'[p].pc = "materialize")
            => store' = store
        /\ (sched[p].pc = "materialize" /\ sched'[p].pc = "materialize"
                /\ sched'[p] # sched[p])
            => store' = store
        /\ MaterializationFails(p)
            => /\ store' = store
               /\ sched'[p].sent = <<>>
               /\ sched'[p].cands = <<>>
               /\ sched'[p].adds = <<>>
      ]_vars

\* A cycle is about to commit the runs it materialized for two jobs; the run
\* for one of them has the key of a stored run, so the commit is going to
\* fail with a run of the other job in the session.
C33_Witness ==
    \E p \in Procs :
        /\ sched[p].pc = "materialize"
        /\ sched[p].jobs = <<>>
        /\ ~uq_job_runs__job_period(job_runs \o sched[p].adds)
        /\ \E i \in DOMAIN sched[p].adds :
                uq_job_runs__job_period(Append(job_runs, sched[p].adds[i]))

\* One scheduler process, never restarted, dispatches the runs of an
\* every-minute job while the owner completes or snoozes the first run.
NextOnce ==
    \/ Tick
    \/ \E first_run_at \in {0, 2} :
        (Len(jobs) < MaxDispatchJobs
            /\ create_job(1, EveryMinute, first_run_at, 0, 0, "telegram", "active"))
    \/ Cycle(1)
    \/ \E action \in {"complete", "snooze"} :
            create_confirmation(1, 1, 1, action, "k1", "p1")
    \/ CommitConfirmation(1)

SpecOnce == Init /\ [][NextOnce]_vars

\* C34: with one scheduler process, no crash and no failing commit, the sink
\* accepts a message for a run at most once and a run has at most one
\* reminder, whatever create_job and create_confirmation calls come between
\* the cycles.
C34_DeliveredOnce ==
    /\ [](\A r \in Ids(job_runs) : Cardinality(RemindersOf(r)) <= 1)
    /\ [][\A p \in Procs :
            Delivered(p) => Head(sched[p].cands) \notin sink_ok
         ]_vars

\* The first run was delivered once and then resolved by its owner, and a
\* later cycle has delivered another run.
C34_Witness ==
    /\ Len(job_runs) >= 2
    /\ job_runs[1].status \in {"confirmed", "snoozed"}
    /\ Cardinality(RemindersOf(1)) = 1
    /\ \E q \in Ids(job_runs) :
        /\ job_runs[q].status = "sent"
        /\ job_runs[q].sent_at > job_runs[1].sent_at

\* One scheduler process dispatches the runs of one-shot jobs while their
\* owner skips the first run and completes the second, both calls with the
\* same idempotency key.
NextScope ==
    \/ Tick
    \/ \E first_run_at \in {0, 2} :
        (Len(jobs) < MaxJobs
            /\ create_job(1, OneShot, first_run_at, 0, 0, "telegram", "active"))
    \/ Cycle(1)
    \/ \E body \in {<<1, "skip">>, <<2, "complete">>} :
            create_confirmation(1, 1, body[1], body[2], "k1", "p1")
    \/ CommitConfirmation(1)

SpecScope == Init /\ [][NextScope]_vars

\* a confirmation with the key is stored for a run other than r
KeyUsedElsewhere(r, idempotency_key) ==
    \E k \in Ids(confirmations) :
        /\ confirmations[k].idempotency_key = idempotency_key
        /\ confirmations[k].job_run_id # r

====






















